---- MODULE Spec2Model ----
(***************************************************************************)
(* A model of the Hookable class of src/src/hookable.ts: the hook          *)
(* registry (_hooks), the deprecation table (_deprecatedHooks), the set of *)
(* emitted deprecation messages (_deprecatedMessages), the unregister      *)
(* closures returned by hook / hookOnce, and the dispatch protocol of      *)
(* callHookWith with its before / after interceptors.                      *)
(***************************************************************************)
EXTENDS Integers, Sequences, FiniteSets, Bags, TLC

\* ------------------------------------------------------------------ bounds

\* closures returned by hook()/hookOnce() that the driver keeps
MaxHandles == 2
\* dispatches (callHook, callHookParallel, callHookWith) whose record is kept
MaxCalls == 2

\* ------------------------------------------------------------------ values

Names == {"a", "b", "c"}
Functions == {"f", "g"}
Messages == {"", "custom"}
Arguments == {"x", "y"}
Spies == {"s", "t"}

\* A callback value.  once = 0: the user's function itself; once = j > 0: the
\* j-th wrapper closure created by hookOnce around the user's function fn.
Plain(f) == [fn |-> f, once |-> 0]
Undefined == [fn |-> "undefined", once |-> 0]
NoDep == [to |-> "", message |-> ""]

VARIABLES
  _hooks,               \* own keys of this._hooks -> array (<<>> stands for the value undefined)
  _deprecatedHooks,     \* own keys of this._deprecatedHooks -> [to, message]
  _deprecatedMessages,  \* the Set of messages already warned about
  console,              \* the bag of messages passed to console.warn
  handles,              \* the closures returned by hook(): captured name and function_
  onceUnreg,            \* per hookOnce wrapper: its captured _unreg (0: undefined)
  onceFired,            \* per hookOnce wrapper: how often the user's function_ was invoked
  hung,                 \* a call entered a loop that never exits
  _before,              \* this._before: [defined, list]
  _after,               \* this._after: [defined, list]
  calls,                \* the dispatches made so far, each with what it has invoked
  removeFns,            \* the closures returned by addHooks(): the array each captured
  spyHandles            \* the closures returned by beforeEach() / afterEach()

registryVars == <<_hooks, _deprecatedHooks, _deprecatedMessages, console, hung>>
handleVars == <<handles, onceUnreg, onceFired>>
spyVars == <<_before, _after>>
closureVars == <<removeFns, spyHandles>>
vars == <<_hooks, _deprecatedHooks, _deprecatedMessages, console, hung,
          handles, onceUnreg, onceFired, _before, _after, calls,
          removeFns, spyHandles>>

\* ------------------------------------------------------------- the registry

\* this._hooks[name] || []
Get(h, name) == IF name \in DOMAIN h THEN h[name] ELSE <<>>

\* this._hooks[name] = value
Put(h, name, value) == [n \in DOMAIN h \cup {name} |-> IF n = name THEN value ELSE h[n]]

\* delete this._hooks[name]
Delete(h, name) == [n \in DOMAIN h \ {name} |-> h[n]]

\* Array.prototype.indexOf: the first index holding x, 0 when there is none
IndexOf(s, x) ==
  IF \E i \in 1..Len(s) : s[i] = x
  THEN CHOOSE i \in 1..Len(s) : s[i] = x /\ \A j \in 1..(i - 1) : s[j] # x
  ELSE 0

\* Array.prototype.splice(index, 1)
Splice(s, i) == [k \in 1..(Len(s) - 1) |-> IF k < i THEN s[k] ELSE s[k + 1]]

\* The number of hops after which the while loop of hook() can only be in a cycle.
Fuel == Cardinality(Names)

\* hook(), lines 37-42: follow _deprecatedHooks from name, keeping the last entry.
RECURSIVE Walk(_, _, _, _)
Walk(deps, name, dep, fuel) ==
  IF name \notin DOMAIN deps THEN [halts |-> TRUE, name |-> name, dep |-> dep]
  ELSE IF fuel = 0 THEN [halts |-> FALSE, name |-> name, dep |-> dep]
  ELSE Walk(deps, deps[name].to, deps[name], fuel - 1)

\* a resolution that follows one alias only
ResolveOneHop(deps, name) ==
  IF name \in DOMAIN deps
  THEN [halts |-> TRUE, name |-> deps[name].to, dep |-> deps[name]]
  ELSE [halts |-> TRUE, name |-> name, dep |-> NoDep]

Resolve(deps, name) == Walk(deps, name, NoDep, Fuel)

\* hook(), lines 44-48: the message of a deprecation warning
MessageOf(originalName, dep) ==
  IF dep.message # "" THEN [text |-> dep.message, name |-> "", to |-> ""]
  ELSE [text |-> "", name |-> originalName, to |-> dep.to]

\* hook(), line 43
ShouldWarn(dep, allowDeprecated) == dep # NoDep /\ ~allowDeprecated

\* a warning that does not look at the messages already emitted
WarnAlways(S, message) ==
  [S EXCEPT !.console = @ (+) SetToBag({message}), !.msgs = @ \cup {message}]

\* hook(), lines 49-55
Warn(S, message) ==
  IF message \notin S.msgs
  THEN [S EXCEPT !.console = @ (+) SetToBag({message}), !.msgs = @ \cup {message}]
  ELSE S

\* hook(), lines 58-59
Push(h, name, function_) == Put(h, name, Append(Get(h, name), function_))

\* typeof function_ === "function"
IsFunction(function_) == function_.fn \in Functions

\* a hook() that lets every name and value through
NeverRejected(name, function_) == FALSE

\* hook(), line 33: a falsy name (the empty string) or a value that is no function
Rejected(name, function_) == name = "" \/ ~IsFunction(function_)

\* hook(), lines 37-59, on the registry S = [hooks, deps, msgs, console, hung]
Hook(S, name, function_, allowDeprecated) ==
  LET r == Resolve(S.deps, name) IN
  IF ~r.halts THEN [S EXCEPT !.hung = TRUE]
  ELSE LET S1 == IF ShouldWarn(r.dep, allowDeprecated)
                 THEN Warn(S, MessageOf(name, r.dep))
                 ELSE S
       IN [S1 EXCEPT !.hooks = Push(S1.hooks, r.name, function_)]

\* a removeHook that takes out every occurrence of the callback
RemoveEvery(h, name, function_) ==
  IF Get(h, name) # <<>>
  THEN LET rest == SelectSeq(h[name], LAMBDA x : x # function_)
       IN IF rest = <<>> THEN Delete(h, name) ELSE Put(h, name, rest)
  ELSE h

\* removeHook(), lines 83-95
RemoveHook(h, name, function_) ==
  IF Get(h, name) # <<>>
  THEN LET index == IndexOf(h[name], function_)
           rest == IF index # 0 THEN Splice(h[name], index) ELSE h[name]
       IN IF rest = <<>> THEN Delete(h, name) ELSE Put(h, name, rest)
  ELSE h

\* deprecateHook(), lines 101-103
RECURSIVE Rehook(_, _, _)
Rehook(S, name, list) ==
  IF list = <<>> \/ S.hung THEN S
  ELSE Rehook(Hook(S, name, Head(list), FALSE), name, Tail(list))

\* a deprecateHook that leaves the array of the name in place
DeprecateHookKeeping(S, name, deprecated) ==
  LET list == Get(S.hooks, name)
      S1 == [S EXCEPT !.deps = Put(S.deps, name, deprecated)]
  IN Rehook(S1, name, list)

\* deprecateHook(), lines 97-104
DeprecateHook(S, name, deprecated) ==
  LET list == Get(S.hooks, name)
      S1 == [S EXCEPT !.deps = Put(S.deps, name, deprecated),
                      !.hooks = Put(S.hooks, name, <<>>)]
  IN Rehook(S1, name, list)

\* deprecateHooks(), line 107: Object.assign of the entries, in their order
RECURSIVE Assign(_, _)
Assign(deps, mapping) ==
  IF mapping = <<>> THEN deps
  ELSE Assign(Put(deps, Head(mapping).name, Head(mapping).deprecated), Tail(mapping))

\* deprecateHooks(), lines 108-110: deprecateHook for each entry, in their order
RECURSIVE DeprecateEach(_, _)
DeprecateEach(S, mapping) ==
  IF mapping = <<>> \/ S.hung THEN S
  ELSE DeprecateEach(DeprecateHook(S, Head(mapping).name, Head(mapping).deprecated),
                     Tail(mapping))

\* deprecateHooks(), lines 106-111; mapping is the sequence of the entries of the
\* object in the order of its keys
DeprecateHooks(S, mapping) ==
  DeprecateEach([S EXCEPT !.deps = Assign(S.deps, mapping)], mapping)

\* the closure returned by hook(), lines 61-66, on the array map h
Unreg(h, handle) ==
  IF handle.function_ # Undefined
  THEN RemoveHook(h, handle.name, handle.function_)
  ELSE h

\* a counter that tells 0, 1 and "twice or more" apart
Count(n) == IF n < 2 THEN n + 1 ELSE n

\* a closure that keeps its function_ after use
NotFreed(handle) == [handle EXCEPT !.calls = Count(@)]

\* line 64; calls counts the invocations of the closure
Freed(handle) == [handle EXCEPT !.function_ = Undefined, !.calls = Count(@)]

\* the wrapper closure _function of hookOnce(), lines 71-78, on
\* X = [hooks, handles, onceUnreg, onceFired]; a user's function changes nothing
InvokeCallback(X, cb) ==
  IF cb.once = 0 THEN X
  ELSE LET j == cb.once
           _unreg == X.onceUnreg[j]
           X1 == IF _unreg # 0
                 THEN [X EXCEPT !.hooks = Unreg(@, X.handles[_unreg]),
                                !.handles[_unreg] = Freed(@)]
                 ELSE X
       IN [X1 EXCEPT !.onceUnreg[j] = 0, !.onceFired[j] = Count(@)]

\* hookOnce(), line 77: the wrapper returns what the user's function returns; the
\* value a user's function returns is named after the function
ResultOf(cb) == cb.fn

\* Promise.all: the value of the i-th Promise is the i-th element of the result
Collect(results, i, value) == [results EXCEPT ![i] = value]

\* one entry of a dispatch's record of invocations
Started(cb, arguments_) == [function_ |-> cb, arguments_ |-> arguments_]

\* A caller handed to callHookWith by the driver: for (const hook of hooks)
\* hook(...arguments_), on the array stored under name, which it reads as it goes;
\* the throwAt-th invocation throws (0: none does).
RECURSIVE SyncCaller(_, _, _, _, _, _)
SyncCaller(X, name, arguments_, throwAt, i, started) ==
  LET hooks == Get(X.hooks, name) IN
  IF i > Len(hooks) THEN [X |-> X, started |-> started, threw |-> FALSE]
  ELSE LET X1 == InvokeCallback(X, hooks[i])
           now == Append(started, Started(hooks[i], arguments_))
       IN IF Len(now) = throwAt
          THEN [X |-> X1, started |-> now, threw |-> TRUE]
          ELSE SyncCaller(X1, name, arguments_, throwAt, i + 1, now)

\* callEachWith(callbacks, event): the callbacks invoked, in order
CallEachWith(callbacks) == callbacks

\* serialCaller / parallelCaller work on the callbacks stored when they are called
Snapshot(h, name) == Get(h, name)

\* a callHook that passes the caller of callHookParallel
WrongCaller == "parallel"

\* a callHookParallel that passes the caller of callHook
WrongParallelCaller == "serial"

\* callHook(), line 134, and callHookParallel(), line 138: the caller they pass
CallHookCaller == "serial"
CallHookParallelCaller == "parallel"

\* line 142
Event(before, after) == before.defined \/ after.defined

\* lines 143-145
RunBefore(before) == IF before.defined THEN CallEachWith(before.list) ELSE <<>>

\* lines 149-151 and 154-156
RunAfter(after, event) == IF after.defined /\ event THEN CallEachWith(after.list) ELSE <<>>


\* ------------------------------------------------------------------ state

Registry == [hooks |-> _hooks, deps |-> _deprecatedHooks,
             msgs |-> _deprecatedMessages, console |-> console, hung |-> hung]

Install(S) ==
  /\ _hooks' = S.hooks
  /\ _deprecatedHooks' = S.deps
  /\ _deprecatedMessages' = S.msgs
  /\ console' = S.console
  /\ hung' = S.hung

Machine == [hooks |-> _hooks, handles |-> handles, onceUnreg |-> onceUnreg,
            onceFired |-> onceFired]

InstallMachine(X) ==
  /\ _hooks' = X.hooks
  /\ handles' = X.handles
  /\ onceUnreg' = X.onceUnreg
  /\ onceFired' = X.onceFired

NoList == [defined |-> FALSE, list |-> <<>>]

\* constructor, lines 19-30
Init ==
  /\ _hooks = <<>>
  /\ _deprecatedHooks = <<>>
  /\ _deprecatedMessages = {}
  /\ console = EmptyBag
  /\ handles = <<>>
  /\ onceUnreg = <<>>
  /\ onceFired = <<>>
  /\ hung = FALSE
  /\ _before = NoList
  /\ _after = NoList
  /\ calls = <<>>
  /\ removeFns = <<>>
  /\ spyHandles = <<>>

\* the closure a call of hook(name, function_, options) returns: the resolved name
\* and function_ it captures; beside them the arguments the call was given
\* (originalName, callback) and the number of times the closure has been invoked
NewHandle(S, name, function_) ==
  [name |-> Resolve(S.deps, name).name, function_ |-> function_,
   originalName |-> name, callback |-> function_, calls |-> 0]

\* hook(), line 34: the closure () => {} returned for a rejected call captures
\* nothing; beside it the arguments the call was given
NoOpHandle(name, function_) ==
  [name |-> "", function_ |-> Undefined,
   originalName |-> name, callback |-> function_, calls |-> 0]

\* flatHooks: the entries of a nested configuration, keys joined with "." down to
\* the functions; a node is [key, fn, children] with fn = "" for a nested mapping
RECURSIVE FlatHooks(_, _)
FlatHooks(configHooks, parentName) ==
  IF configHooks = <<>> THEN <<>>
  ELSE LET node == Head(configHooks)
           name == IF parentName = "" THEN node.key ELSE parentName \o "." \o node.key
           entries == IF node.fn # ""
                      THEN <<[name |-> name, function_ |-> Plain(node.fn)]>>
                      ELSE FlatHooks(node.children, name)
       IN entries \o FlatHooks(Tail(configHooks), parentName)

\* addHooks(), lines 115-117: hook() for each key; removeFns collects the closures
RECURSIVE HookEach(_, _, _)
HookEach(S, hooks, fns) ==
  IF hooks = <<>> \/ S.hung THEN [S |-> S, removeFns |-> fns]
  ELSE LET key == Head(hooks).name
           function_ == Head(hooks).function_
       IN IF Rejected(key, function_)
          THEN HookEach(S, Tail(hooks), Append(fns, NoOpHandle(key, function_)))
          ELSE HookEach(Hook(S, key, function_, FALSE), Tail(hooks),
                        Append(fns, NewHandle(S, key, function_)))

\* the closure returned by addHooks(), line 120: splice(0, length) empties the array
SpliceAll(fns) == <<>>

\* the closure returned by addHooks(), lines 119-122: each closure is invoked
RECURSIVE UnregEach(_, _)
UnregEach(h, fns) ==
  IF fns = <<>> THEN h ELSE UnregEach(Unreg(h, Head(fns)), Tail(fns))

\* hook(name, function_, {allowDeprecated})
Register(name, f, allowDeprecated) ==
  /\ ~hung
  /\ Len(handles) < MaxHandles
  /\ IF Rejected(name, Plain(f))
     THEN /\ handles' = Append(handles, NoOpHandle(name, Plain(f)))
          /\ UNCHANGED registryVars
     ELSE LET S == Hook(Registry, name, Plain(f), allowDeprecated) IN
            /\ Install(S)
            /\ handles' = IF S.hung THEN handles
                          ELSE Append(handles, NewHandle(Registry, name, Plain(f)))
  /\ UNCHANGED <<onceUnreg, onceFired, spyVars, closureVars, calls>>

\* hookOnce(name, function_), lines 69-81
RegisterOnce(name, f) ==
  /\ ~hung
  /\ Len(handles) < MaxHandles
  /\ LET _function == [fn |-> f, once |-> Len(onceUnreg) + 1]
         S == Hook(Registry, name, _function, FALSE) IN
       /\ Install(S)
       /\ IF S.hung
          THEN UNCHANGED handleVars
          ELSE /\ handles' = Append(handles, NewHandle(Registry, name, _function))
               /\ onceUnreg' = Append(onceUnreg, Len(handles) + 1)
               /\ onceFired' = Append(onceFired, 0)
  /\ UNCHANGED <<spyVars, closureVars, calls>>

\* invoking the closure returned by hook() / hookOnce()
Unregister(i) ==
  /\ ~hung
  /\ i \in 1..Len(handles)
  /\ _hooks' = Unreg(_hooks, handles[i])
  /\ handles' = [handles EXCEPT ![i] = Freed(@)]
  /\ UNCHANGED <<_deprecatedHooks, _deprecatedMessages, console, hung,
                 onceUnreg, onceFired, spyVars, closureVars, calls>>

\* removeHook(name, function_)
Remove(name, cb) ==
  /\ ~hung
  /\ _hooks' = RemoveHook(_hooks, name, cb)
  /\ UNCHANGED <<_deprecatedHooks, _deprecatedMessages, console, hung,
                 handleVars, spyVars, closureVars, calls>>

\* deprecateHook(name, deprecated)
Deprecate(name, to, message) ==
  /\ ~hung
  /\ Install(DeprecateHook(Registry, name, [to |-> to, message |-> message]))
  /\ UNCHANGED <<handleVars, spyVars, closureVars, calls>>

\* deprecateHooks(deprecatedHooks)
DeprecateMany(mapping) ==
  /\ ~hung
  /\ Install(DeprecateHooks(Registry, mapping))
  /\ UNCHANGED <<handleVars, spyVars, closureVars, calls>>

\* addHooks(configHooks), lines 113-123; beside the array its closure captures,
\* the closures it held at first (created) and how often it has been invoked
AddHooks(configHooks) ==
  /\ ~hung
  /\ Len(removeFns) < MaxHandles
  /\ LET r == HookEach(Registry, FlatHooks(configHooks, ""), <<>>) IN
       /\ Install(r.S)
       /\ removeFns' = IF r.S.hung THEN removeFns
                       ELSE Append(removeFns, [removeFns |-> r.removeFns,
                                               created |-> r.removeFns, calls |-> 0])
  /\ UNCHANGED <<handleVars, spyVars, spyHandles, calls>>

\* invoking the closure returned by addHooks()
RemoveAll(k) ==
  /\ ~hung
  /\ k \in 1..Len(removeFns)
  /\ _hooks' = UnregEach(_hooks, removeFns[k].removeFns)
  /\ removeFns' = [removeFns EXCEPT ![k].removeFns = SpliceAll(@), ![k].calls = Count(@)]
  /\ UNCHANGED <<_deprecatedHooks, _deprecatedMessages, console, hung,
                 handleVars, spyVars, spyHandles, calls>>

\* the closure returned by beforeEach() / afterEach(), lines 163-166 and 172-175,
\* on the list it reads from this._before / this._after
RemoveInterceptor(list, function_) ==
  IF IndexOf(list, function_) # 0 THEN Splice(list, IndexOf(list, function_)) ELSE list

\* the closure a call of beforeEach / afterEach returns: the list it reads (kind)
\* and the function_ it captures; beside them how often it has been invoked and
\* how many entries it has removed
NewSpyHandle(kind, function_) ==
  [kind |-> kind, function_ |-> function_, calls |-> 0, removed |-> 0]

\* beforeEach(function_), lines 160-167, the driver keeps the returned closure
InterceptBefore(spy) ==
  /\ ~hung
  /\ Len(spyHandles) < MaxHandles
  /\ _before' = [defined |-> TRUE, list |-> Append(_before.list, spy)]
  /\ spyHandles' = Append(spyHandles, NewSpyHandle("before", spy))
  /\ UNCHANGED <<registryVars, handleVars, _after, removeFns, calls>>

\* afterEach(function_), lines 169-176, the driver keeps the returned closure
InterceptAfter(spy) ==
  /\ ~hung
  /\ Len(spyHandles) < MaxHandles
  /\ _after' = [defined |-> TRUE, list |-> Append(_after.list, spy)]
  /\ spyHandles' = Append(spyHandles, NewSpyHandle("after", spy))
  /\ UNCHANGED <<registryVars, handleVars, _before, removeFns, calls>>

\* invoking the closure returned by beforeEach() / afterEach()
Unintercept(i) ==
  /\ ~hung
  /\ i \in 1..Len(spyHandles)
  /\ LET handle == spyHandles[i]
         list == IF handle.kind = "before" THEN _before.list ELSE _after.list
         rest == RemoveInterceptor(list, handle.function_)
     IN /\ IF handle.kind = "before"
           THEN _before' = [_before EXCEPT !.list = rest] /\ UNCHANGED _after
           ELSE _after' = [_after EXCEPT !.list = rest] /\ UNCHANGED _before
        /\ spyHandles' = [spyHandles EXCEPT
             ![i].calls = Count(@),
             ![i].removed = IF rest # list THEN @ + 1 ELSE @]
  /\ UNCHANGED <<registryVars, handleVars, removeFns, calls>>

\* beforeEach(function_), lines 160-162; the driver registers an interceptor once
BeforeEach(spy) ==
  /\ ~hung
  /\ spy \notin {_before.list[i] : i \in 1..Len(_before.list)}
  /\ _before' = [defined |-> TRUE, list |-> Append(_before.list, spy)]
  /\ UNCHANGED <<registryVars, handleVars, _after, closureVars, calls>>

\* afterEach(function_), lines 169-171; the driver registers an interceptor once
AfterEach(spy) ==
  /\ ~hung
  /\ spy \notin {_after.list[i] : i \in 1..Len(_after.list)}
  /\ _after' = [defined |-> TRUE, list |-> Append(_after.list, spy)]
  /\ UNCHANGED <<registryVars, handleVars, _before, closureVars, calls>>

\* parallelCaller: every callback of the list is invoked, in order
RECURSIVE InvokeAll(_, _)
InvokeAll(X, list) ==
  IF list = <<>> THEN X ELSE InvokeAll(InvokeCallback(X, Head(list)), Tail(list))

\* The record of a dispatch: the arguments of callHookWith, the callbacks stored
\* under name and the interceptors registered when it was called, whether the
\* event object was made (line 142), and what has been invoked since: the
\* before-interceptors, the callbacks with their arguments (started) and what became
\* of each (outcome: "running", "ok" or "failed"; results: the value it gave, by
\* position, "none" so far), the after-interceptors; error is the index of the
\* callback the dispatch failed with (0: none).
NewCall(caller, name, arguments_) ==
  [caller |-> caller, name |-> name, arguments_ |-> arguments_,
   hooks |-> Get(_hooks, name),
   beforeAtStart |-> _before.list, afterAtStart |-> _after.list,
   event |-> Event(_before, _after), before |-> RunBefore(_before),
   started |-> <<>>, outcome |-> <<>>, results |-> <<>>, after |-> <<>>,
   state |-> "pending", error |-> 0]

\* callHookWith(caller, name, ...arguments_), lines 141-153, for serialCaller and
\* parallelCaller, which return a Promise
Dispatch(caller, name, arguments_) ==
  /\ ~hung
  /\ Len(calls) < MaxCalls
  /\ LET hooks == Snapshot(_hooks, name)
         c == NewCall(caller, name, arguments_)
     IN IF caller = "parallel"
        THEN /\ InstallMachine(InvokeAll(Machine, hooks))
             /\ calls' = Append(calls,
                  [c EXCEPT !.started = [k \in 1..Len(hooks) |-> Started(hooks[k], arguments_)],
                            !.outcome = [k \in 1..Len(hooks) |-> "running"],
                            !.results = [k \in 1..Len(hooks) |-> "none"]])
        ELSE /\ calls' = Append(calls, c)
             /\ UNCHANGED <<_hooks, handleVars>>
  /\ UNCHANGED <<_deprecatedHooks, _deprecatedMessages, console, hung, spyVars, closureVars>>

\* callHook(name, ...arguments_), lines 133-135
CallHook(name, arguments_) == Dispatch(CallHookCaller, name, arguments_)

\* callHookParallel(name, ...arguments_), lines 137-139
CallHookParallel(name, arguments_) == Dispatch(CallHookParallelCaller, name, arguments_)

\* callHookWith(SyncCaller, name, ...arguments_), lines 141-158: the caller returns
\* no Promise (lines 154-157) or throws at line 146
CallHookWithSync(name, arguments_, throwAt) ==
  /\ ~hung
  /\ Len(calls) < MaxCalls
  /\ LET c == NewCall("sync", name, arguments_)
         r == SyncCaller(Machine, name, arguments_, throwAt, 1, <<>>)
         n == Len(r.started)
     IN /\ InstallMachine(r.X)
        /\ calls' = Append(calls,
             [c EXCEPT !.started = r.started,
                       !.outcome = [k \in 1..n |-> IF r.threw /\ k = n THEN "failed" ELSE "ok"],
                       !.results = [k \in 1..n |-> IF r.threw /\ k = n THEN "none"
                                                   ELSE ResultOf(r.started[k].function_)],
                       !.after = IF r.threw THEN <<>> ELSE RunAfter(_after, c.event),
                       !.state = IF r.threw THEN "thrown" ELSE "returned",
                       !.error = IF r.threw THEN n ELSE 0])
  /\ UNCHANGED <<_deprecatedHooks, _deprecatedMessages, console, hung, spyVars, closureVars>>

\* serialCaller: the next callback is invoked once every earlier one has succeeded;
\* it returns a value ("ok"), throws ("failed") or returns an awaitable ("running")
Invoke(d, result) ==
  /\ ~hung
  /\ d \in 1..Len(calls)
  /\ LET c == calls[d] IN
       /\ c.caller = "serial"
       /\ c.state = "pending"
       /\ Len(c.started) < Len(c.hooks)
       /\ \A i \in 1..Len(c.outcome) : c.outcome[i] = "ok"
       /\ LET cb == c.hooks[Len(c.started) + 1] IN
            /\ InstallMachine(InvokeCallback(Machine, cb))
            /\ calls' = [calls EXCEPT
                 ![d].started = Append(@, Started(cb, c.arguments_)),
                 ![d].outcome = Append(@, result),
                 ![d].results = Append(@, IF result = "ok" THEN ResultOf(cb) ELSE "none"),
                 ![d].error = IF result = "failed" THEN Len(c.started) + 1 ELSE @]
  /\ UNCHANGED <<_deprecatedHooks, _deprecatedMessages, console, hung, spyVars, closureVars>>

\* the awaitable a callback returned settles; the first failure is the dispatch's
Settle(d, i, result) ==
  /\ ~hung
  /\ d \in 1..Len(calls)
  /\ calls[d].state = "pending"
  /\ i \in 1..Len(calls[d].outcome)
  /\ calls[d].outcome[i] = "running"
  /\ calls' = [calls EXCEPT
       ![d].outcome[i] = result,
       ![d].results = IF result = "ok"
                      THEN Collect(@, i, ResultOf(calls[d].started[i].function_))
                      ELSE @,
       ![d].error = IF result = "failed" /\ @ = 0 THEN i ELSE @]
  /\ UNCHANGED <<registryVars, handleVars, spyVars, closureVars>>

\* the Promise of the dispatch settles and the callback of finally(), lines
\* 148-152, runs
Finish(d) ==
  /\ ~hung
  /\ d \in 1..Len(calls)
  /\ LET c == calls[d]
         done == /\ Len(c.started) = Len(c.hooks)
                 /\ \A i \in 1..Len(c.outcome) : c.outcome[i] = "ok"
     IN /\ c.state = "pending"
        /\ c.error # 0 \/ done
        /\ calls' = [calls EXCEPT
             ![d].after = RunAfter(_after, c.event),
             ![d].state = IF c.error # 0 THEN "rejected" ELSE "resolved"]
  /\ UNCHANGED <<registryVars, handleVars, spyVars, closureVars>>

\* the driver drops the record of a settled dispatch
Return(d) ==
  /\ ~hung
  /\ d \in 1..Len(calls)
  /\ calls[d].state # "pending"
  /\ calls' = [i \in 1..(Len(calls) - 1) |-> IF i < d THEN calls[i] ELSE calls[i + 1]]
  /\ UNCHANGED <<registryVars, handleVars, spyVars, closureVars>>

\* every callback value that exists
Callbacks ==
  ({Plain(f) : f \in Functions} \cup
   {handles[i].function_ : i \in 1..Len(handles)}) \ {Undefined}

\* The registry alone: hook, its closures, removeHook and deprecateHook.
Next ==
  \/ \E name \in {"a", "b"}, f \in Functions : Register(name, f, FALSE)
  \/ \E i \in 1..MaxHandles : Unregister(i)
  \/ \E name \in {"a", "b"}, f \in Functions : Remove(name, Plain(f))
  \/ \E name \in {"a", "b"}, to \in {"a", "b"} : Deprecate(name, to, "")

Spec == Init /\ [][Next]_vars

\* Serial dispatch of one name, one dispatch at a time, while the registry changes.
NextSerial ==
  \/ \E f \in Functions : Register("a", f, FALSE)
  \/ \E i \in 1..MaxHandles : Unregister(i)
  \/ \E arguments_ \in Arguments : calls = <<>> /\ CallHook("a", arguments_)
  \/ \E d \in 1..MaxCalls : Return(d)
  \/ \E d \in 1..MaxCalls, result \in {"ok", "failed", "running"} : Invoke(d, result)
  \/ \E d \in 1..MaxCalls, i \in 1..MaxHandles, result \in {"ok", "failed"} : Settle(d, i, result)
  \/ \E d \in 1..MaxCalls : Finish(d)

SpecSerial == Init /\ [][NextSerial]_vars

\* Parallel dispatch of one name, one dispatch at a time, while the registry changes.
NextParallel ==
  \/ \E f \in Functions : Register("a", f, FALSE)
  \/ RegisterOnce("a", "f")
  \/ \E i \in 1..MaxHandles : Unregister(i)
  \/ \E arguments_ \in Arguments : calls = <<>> /\ CallHookParallel("a", arguments_)
  \/ \E d \in 1..MaxCalls, i \in 1..MaxHandles, result \in {"ok", "failed"} : Settle(d, i, result)
  \/ \E d \in 1..MaxCalls : Finish(d)
  \/ \E d \in 1..MaxCalls : Return(d)

SpecParallel == Init /\ [][NextParallel]_vars

\* Dispatches in flight together while hookOnce, hook, the closures and
\* deprecateHook change the registry; no callback fails.
NextOnce ==
  \/ Register("a", "g", FALSE)
  \/ RegisterOnce("a", "f")
  \/ \E i \in 1..MaxHandles : Unregister(i)
  \/ Deprecate("a", "b", "")
  \/ \E name \in {"a", "b"} : CallHook(name, "x")
  \/ \E name \in {"a", "b"} : CallHookParallel(name, "x")
  \/ CallHookWithSync("a", "x", 0)
  \/ \E d \in 1..MaxCalls, result \in {"ok", "running"} : Invoke(d, result)
  \/ \E d \in 1..MaxCalls, i \in 1..MaxHandles : Settle(d, i, "ok")
  \/ \E d \in 1..MaxCalls : Finish(d)
  \/ \E d \in 1..MaxCalls : Return(d)

SpecOnce == Init /\ [][NextOnce]_vars

\* Dispatches of one name, one at a time, with interceptors; callbacks may fail.
NextSpy ==
  \/ Register("a", "f", FALSE)
  \/ \E spy \in Spies : BeforeEach(spy)
  \/ \E spy \in Spies : AfterEach(spy)
  \/ calls = <<>> /\ CallHook("a", "x")
  \/ calls = <<>> /\ CallHookParallel("a", "y")
  \/ \E throwAt \in 0..1 : calls = <<>> /\ CallHookWithSync("a", "x", throwAt)
  \/ \E d \in 1..MaxCalls, result \in {"ok", "failed", "running"} : Invoke(d, result)
  \/ \E d \in 1..MaxCalls, i \in 1..MaxHandles, result \in {"ok", "failed"} : Settle(d, i, result)
  \/ \E d \in 1..MaxCalls : Finish(d)
  \/ \E d \in 1..MaxCalls : Return(d)

SpecSpy == Init /\ [][NextSpy]_vars

\* Registration through deprecated names: chains of aliases, messages, allowDeprecated.
NextAlias ==
  \/ \E name \in Names, f \in Functions, allow \in BOOLEAN : Register(name, f, allow)
  \/ \E name \in {"a", "b"}, to \in {"b", "c"}, message \in Messages :
       Deprecate(name, to, message)

SpecAlias == Init /\ [][NextAlias]_vars

\* the objects handed to deprecateHooks: one or two entries with different keys
Entry(name, to) == [name |-> name, deprecated |-> [to |-> to, message |-> ""]]
Mappings ==
  {<<Entry(n, t)>> : n \in {"a", "b"}, t \in {"b", "c"}} \cup
  {m \in {<<Entry(n1, t1), Entry(n2, t2)>> :
            n1 \in {"a", "b"}, t1 \in {"b", "c"}, n2 \in {"a", "b"}, t2 \in {"b", "c"}} :
     m[1].name # m[2].name}

\* Deprecation of several names in one call, over names that hold callbacks.
NextMany ==
  \/ \E name \in Names, f \in Functions : Register(name, f, FALSE)
  \/ \E mapping \in Mappings : DeprecateMany(mapping)

SpecMany == Init /\ [][NextMany]_vars

\* Registration with names and values that hook() rejects, beside valid ones.
NextInvalid ==
  \/ \E name \in {"", "a"}, f \in {"f", "undefined"}, allow \in BOOLEAN :
       Register(name, f, allow)
  \/ \E i \in 1..MaxHandles : Unregister(i)
  \/ \E message \in Messages : Deprecate("a", "b", message)

SpecInvalid == Init /\ [][NextInvalid]_vars

\* Dispatch of deprecated names and of their targets, one dispatch at a time.
NextOld ==
  \/ Register("a", "g", FALSE)
  \/ RegisterOnce("a", "f")
  \/ Deprecate("a", "b", "")
  \/ Deprecate("b", "c", "")
  \/ \E name \in Names : calls = <<>> /\ CallHook(name, "x")
  \/ \E name \in Names : calls = <<>> /\ CallHookParallel(name, "x")
  \/ \E d \in 1..MaxCalls : Invoke(d, "ok")
  \/ \E d \in 1..MaxCalls, i \in 1..MaxHandles : Settle(d, i, "ok")
  \/ \E d \in 1..MaxCalls : Finish(d)
  \/ \E d \in 1..MaxCalls : Return(d)

SpecOld == Init /\ [][NextOld]_vars

\* Interceptors whose closures the driver keeps and invokes, the same function
\* registered more than once included, around a dispatch.
NextIntercept ==
  \/ \E spy \in Spies : InterceptBefore(spy)
  \/ \E spy \in Spies : InterceptAfter(spy)
  \/ \E i \in 1..MaxHandles : Unintercept(i)
  \/ calls = <<>> /\ CallHookWithSync("a", "x", 0)
  \/ \E d \in 1..MaxCalls : Return(d)

SpecIntercept == Init /\ [][NextIntercept]_vars

\* Deprecation of names that hold callbacks, along the chain a -> b -> c.
NextMigrate ==
  \/ \E name \in Names, f \in Functions : Register(name, f, FALSE)
  \/ \E name \in {"a", "b"}, to \in {"b", "c"} : Deprecate(name, to, "")

SpecMigrate == Init /\ [][NextMigrate]_vars

\* Aliases that close a cycle: a -> a, a -> b with b -> a, b -> b.
NextCycle ==
  \/ \E name \in {"a", "b"}, f \in Functions : Register(name, f, FALSE)
  \/ \E name \in {"a", "b"}, to \in {"a", "b"} : Deprecate(name, to, "")

SpecCycle == Init /\ [][NextCycle]_vars

\* a node of a nested configuration
Node(key, fn, children) == [key |-> key, fn |-> fn, children |-> children]

\* the configurations handed to addHooks: { a: { b: f } }, { "a.b": f } and
\* { a: { b: f, c: g } }
Configs ==
  {<<Node("a", "", <<Node("b", "f", <<>>)>>)>>,
   <<Node("a.b", "f", <<>>)>>,
   <<Node("a", "", <<Node("b", "f", <<>>), Node("c", "g", <<>>)>>)>>}

\* Nested configurations, beside single registrations and a deprecation of the
\* names they use.
NextAdd ==
  \/ \E configHooks \in Configs : AddHooks(configHooks)
  \/ \E k \in 1..MaxHandles : RemoveAll(k)
  \/ \E f \in Functions : Register("a.b", f, FALSE)
  \/ \E i \in 1..MaxHandles : Unregister(i)
  \/ Deprecate("a.b", "c", "")

SpecAdd == Init /\ [][NextAdd]_vars

\* ------------------------------------------------------------------ claims

\* the names the alias entries lead to from the names of set
RECURSIVE Closure(_, _)
Closure(deps, set) ==
  LET next == set \cup {deps[n].to : n \in set \cap DOMAIN deps}
  IN IF next = set THEN set ELSE Closure(deps, next)

AliasChain(name) == Closure(_deprecatedHooks, {name})

\* the chain from name ends at a name without alias entry
Acyclic(name) == \E c \in AliasChain(name) : c \notin DOMAIN _deprecatedHooks

FinalName(name) == CHOOSE c \in AliasChain(name) : c \notin DOMAIN _deprecatedHooks

\* the alias entry whose target is the final name
LastHop(name) ==
  LET n == CHOOSE n \in AliasChain(name) \cap DOMAIN _deprecatedHooks :
             _deprecatedHooks[n].to = FinalName(name)
  IN _deprecatedHooks[n]

Range(s) == {s[i] : i \in 1..Len(s)}

\* C2: a name is a key of _hooks if and only if a non-empty sequence of callbacks
\* is stored under it.
C2_KeyIffNonEmpty ==
  \A name \in Names : name \in DOMAIN _hooks <=> Get(_hooks, name) # <<>>

\* C3: in every state, hook(name, function_) immediately followed by the closure
\* it returns leaves the sequence of every name as it was, order included.
C3_RoundTrip ==
  \A name \in Names, f \in Functions :
    LET S == Hook(Registry, name, Plain(f), FALSE)
        handle == NewHandle(Registry, name, Plain(f))
    IN (~hung /\ ~S.hung) => Unreg(S.hooks, handle) = _hooks

\* C4: a closure returned by hook() that has been invoked before changes no
\* sequence of callbacks when it is invoked again.
C4_SecondInvocationNoOp ==
  [][\A i \in 1..Len(handles) :
       (handles[i].calls >= 1 /\ Unregister(i)) => _hooks' = _hooks]_vars

\* a closure has been invoked twice while the callback it registered is stored,
\* by a later registration, under the name it captured
C4_Witness ==
  \E i, j \in 1..Len(handles) :
    /\ i < j
    /\ handles[i].calls = 2
    /\ handles[j].calls = 0
    /\ handles[j].name = handles[i].name
    /\ handles[j].function_ = handles[i].callback
    /\ handles[i].callback \in Range(Get(_hooks, handles[i].name))

\* C5: when the alias chain from name ends at a name c without alias, hook(name, f)
\* appends f to the sequence of c, which is what a dispatch of c then calls, and
\* changes the sequence of no other name.
C5_RegisterFollowsChain ==
  [][\A name \in Names, f \in Functions, allow \in BOOLEAN :
       (/\ name \in DOMAIN _deprecatedHooks
        /\ Acyclic(name)
        /\ Register(name, f, allow)) =>
         LET c == FinalName(name) IN
           /\ Snapshot(_hooks', c) = Append(Get(_hooks, c), Plain(f))
           /\ \A n \in Names \ {c} : Get(_hooks', n) = Get(_hooks, n)]_vars

\* a callback registered as a is stored under c, two aliases away
C5_Witness ==
  \E i \in 1..Len(handles) :
    /\ handles[i].originalName = "a"
    /\ handles[i].name = "c"
    /\ "a" \in DOMAIN _deprecatedHooks /\ _deprecatedHooks["a"].to = "b"
    /\ "b" \in DOMAIN _deprecatedHooks /\ _deprecatedHooks["b"].to = "c"
    /\ handles[i].function_ \in Range(Snapshot(_hooks, "c"))

\* C6: no message is passed to console.warn twice; a call of hook() that returns
\* warns exactly when its name had an alias, allowDeprecated was not set and the
\* message was not emitted before; with allowDeprecated it stores the callback under
\* the same final name and warns of nothing.
C6_WarnOncePerMessage ==
  [][/\ \A m \in BagToSet(console') : CopiesIn(m, console') = 1
     /\ \A name \in Names, f \in Functions, allow \in BOOLEAN :
          (Acyclic(name) /\ Register(name, f, allow)) =>
            LET aliased == name \in DOMAIN _deprecatedHooks
                message == MessageOf(name, LastHop(name))
                fresh == CopiesIn(message, console) = 0
                c == FinalName(name)
            IN /\ (console' # console) <=> (aliased /\ ~allow /\ fresh)
               /\ (console' # console) => console' = console (+) SetToBag({message})
               /\ Get(_hooks', c) = Append(Get(_hooks, c), Plain(f))]_vars

\* two different callbacks were registered through the same deprecated name, and
\* its message was passed to console.warn once
C6_Witness ==
  \E i, j \in 1..Len(handles) :
    /\ handles[i].originalName = handles[j].originalName
    /\ handles[i].callback # handles[j].callback
    /\ handles[i].name # handles[i].originalName
    /\ handles[j].name # handles[j].originalName
    /\ \E m \in BagToSet(console) :
         m.name = handles[i].originalName /\ CopiesIn(m, console) = 1

\* how often x occurs in the sequence s
Occurrences(s, x) == Cardinality({k \in 1..Len(s) : s[k] = x})

\* C1: the function given to hookOnce is invoked at most once.
C1_OnceAtMostOnce ==
  \A j \in 1..Len(onceFired) : onceFired[j] <= 1

\* C7: a dispatch made by callHook starts the callbacks stored under the name in
\* their order, each with the arguments of the dispatch, and starts none while the
\* awaitable of an earlier one is unsettled.
C7_SerialOrder ==
  \A d \in 1..Len(calls) :
    LET c == calls[d] IN
      /\ Len(c.started) <= Len(c.hooks)
      /\ \A k \in 1..Len(c.started) : c.started[k] = Started(c.hooks[k], c.arguments_)
      /\ \A k \in 1..(Len(c.started) - 1) : c.outcome[k] # "running"

\* the second of two different callbacks runs after the first has returned
C7_Witness ==
  \E d \in 1..Len(calls) :
    /\ Len(calls[d].hooks) = 2
    /\ calls[d].hooks[1] # calls[d].hooks[2]
    /\ calls[d].arguments_ = "y"
    /\ calls[d].outcome = <<"ok", "running">>

\* C8: when a callback of a dispatch made by callHook throws or its awaitable
\* fails, no later callback is invoked, and the dispatch does not succeed: it
\* fails with the error of that callback.
C8_SerialFailFast ==
  \A d \in 1..Len(calls) :
    LET c == calls[d] IN
      \A k \in 1..Len(c.outcome) :
        c.outcome[k] = "failed" =>
          /\ Len(c.started) = k
          /\ c.error = k
          /\ c.state \in {"pending", "rejected"}

\* the first of two callbacks failed and the dispatch was rejected
C8_Witness ==
  \E d \in 1..Len(calls) :
    /\ Len(calls[d].hooks) = 2
    /\ calls[d].outcome = <<"failed">>
    /\ calls[d].state = "rejected"

\* C9: a dispatch made while interceptors are registered invokes every
\* before-interceptor once, in order, before any callback, and, once it has
\* settled, has invoked every after-interceptor registered at its start exactly
\* once, also when a callback threw or failed.
C9_InterceptorsAroundDispatch ==
  \A d \in 1..Len(calls) :
    LET c == calls[d] IN
      /\ c.before = c.beforeAtStart
      /\ c.state # "pending" =>
           \A spy \in Range(c.afterAtStart) : Occurrences(c.after, spy) = 1

\* C10: a dispatch that has completed has invoked exactly the callbacks that were
\* stored under its name when it started, in that order.
C10_DispatchesSnapshot ==
  \A d \in 1..Len(calls) :
    LET c == calls[d] IN
      c.state \in {"resolved", "returned"} =>
        [k \in 1..Len(c.started) |-> c.started[k].function_] = c.hooks

\* C11: a dispatch made by callHookParallel has started every callback stored under
\* the name, each with the arguments of the dispatch, before any of them settles;
\* whatever the order in which they settle, the value of the i-th callback is the
\* i-th element of the result.
C11_ParallelOrder ==
  \A d \in 1..Len(calls) :
    LET c == calls[d]
        n == Len(c.hooks)
    IN /\ c.started = [k \in 1..n |-> Started(c.hooks[k], c.arguments_)]
       /\ Len(c.results) = n
       /\ \A k \in 1..n : c.outcome[k] = "ok" => c.results[k] = ResultOf(c.hooks[k])
       /\ c.state = "resolved" => c.results = [k \in 1..n |-> ResultOf(c.hooks[k])]

\* the second of two different callbacks has settled before the first
C11_Witness ==
  \E d \in 1..Len(calls) :
    /\ Len(calls[d].hooks) = 2
    /\ ResultOf(calls[d].hooks[1]) # ResultOf(calls[d].hooks[2])
    /\ calls[d].outcome = <<"running", "ok">>
    /\ calls[d].results = <<"none", ResultOf(calls[d].hooks[2])>>

\* the least index of x in s
FirstOccurrence(s, x) == CHOOSE k \in 1..Len(s) : s[k] = x /\ \A j \in 1..(k - 1) : s[j] # x

\* C12: removeHook(name, callback) looks at the literal name only: it takes the
\* first occurrence of the callback out of the sequence of that name, deletes the
\* key when nothing is left, leaves every other name (the target of an alias of
\* name included) and the alias table as they were, and changes nothing when the
\* callback is not stored under the name.
C12_RemoveLiteralName ==
  [][\A name \in Names, f \in Functions :
       Remove(name, Plain(f)) =>
         LET s == Get(_hooks, name)
         IN /\ \A n \in Names \ {name} :
                 /\ (n \in DOMAIN _hooks') = (n \in DOMAIN _hooks)
                 /\ Get(_hooks', n) = Get(_hooks, n)
            /\ _deprecatedHooks' = _deprecatedHooks
            /\ Plain(f) \notin Range(s) => _hooks' = _hooks
            /\ Plain(f) \in Range(s) =>
                 LET rest == Splice(s, FirstOccurrence(s, Plain(f)))
                 IN /\ Get(_hooks', name) = rest
                    /\ (name \in DOMAIN _hooks') = (rest # <<>>)]_vars

\* a callback registered through the deprecated name a is stored under b, and a
\* callback whose handle was never invoked is stored nowhere: removeHook took it out
C12_Witness ==
  /\ "a" \in DOMAIN _deprecatedHooks
  /\ \E i \in 1..Len(handles) :
       /\ handles[i].calls = 0
       /\ handles[i].originalName = "a"
       /\ handles[i].name = "b"
       /\ \A n \in DOMAIN _hooks : handles[i].function_ \notin Range(_hooks[n])
  /\ "b" \in DOMAIN _hooks

\* C13: a deprecateHook(name, target) that returns has moved the callbacks stored
\* under name, in their order and each exactly once, to the end of the sequence of
\* the name the alias chain of name now resolves to; no callback is left under
\* name and the sequences of all other names are as they were.
C13_DeprecateMigrates ==
  [][\A name \in Names, to \in Names, message \in Messages :
       (Deprecate(name, to, message) /\ ~hung') =>
         LET moved == Get(_hooks, name)
             chain == Closure(_deprecatedHooks', {name})
         IN /\ Get(_hooks', name) = <<>>
            /\ moved # <<>> =>
                 /\ \E c \in chain : c \notin DOMAIN _deprecatedHooks'
                 /\ LET final == CHOOSE c \in chain : c \notin DOMAIN _deprecatedHooks'
                    IN /\ Get(_hooks', final) = Get(_hooks, final) \o moved
                       /\ \A n \in Names \ {name, final} : Get(_hooks', n) = Get(_hooks, n)
            /\ moved = <<>> => \A n \in Names : Get(_hooks', n) = Get(_hooks, n)]_vars

\* two callbacks registered directly under a are stored, in their order, under c,
\* the end of the chain a -> b -> c, and nothing is left under a
C13_Witness ==
  /\ "a" \in DOMAIN _deprecatedHooks /\ _deprecatedHooks["a"].to = "b"
  /\ "b" \in DOMAIN _deprecatedHooks /\ _deprecatedHooks["b"].to = "c"
  /\ Len(handles) = 2
  /\ handles[1].name = "a" /\ handles[2].name = "a"
  /\ handles[1].function_ # handles[2].function_
  /\ Get(_hooks, "c") = <<handles[1].function_, handles[2].function_>>
  /\ Get(_hooks, "a") = <<>>

\* C14: deprecateHooks(mapping) leaves the alias table, the callback sequences and
\* the set of emitted warning messages as deprecateHook called once per entry, in
\* the order of the mapping, leaves them.
C14_DeprecateManyAsSequence ==
  [][\A mapping \in Mappings :
       (DeprecateMany(mapping) /\ ~hung') =>
         LET T == DeprecateEach(Registry, mapping)
         IN /\ ~T.hung
            /\ _deprecatedHooks' = T.deps
            /\ _hooks' = T.hooks
            /\ BagToSet(console') = BagToSet(T.console)]_vars

\* C15: hook() with the empty name or with a value that is no function changes
\* neither the arrays, nor the alias table, nor the emitted warnings (none is
\* emitted for a deprecated name either) and does not fail; invoking the closure
\* it returned changes nothing.
C15_RejectedRegistration ==
  [][/\ \A name \in {"", "a"}, f \in {"f", "undefined"}, allow \in BOOLEAN :
          (Register(name, f, allow) /\ (name = "" \/ f \notin Functions)) =>
            /\ UNCHANGED <<_hooks, _deprecatedHooks, _deprecatedMessages, console, hung>>
            /\ Len(handles') = Len(handles) + 1
     /\ \A i \in 1..MaxHandles :
          (/\ Unregister(i)
           /\ (handles[i].originalName = "" \/ handles[i].callback.fn \notin Functions)) =>
            UNCHANGED <<_hooks, _deprecatedHooks, _deprecatedMessages, console, hung>>
    ]_vars

\* hook('a', undefined) was called while a is deprecated and a callback is stored
\* under its target, the closure it returned has been invoked, no warning exists
C15_Witness ==
  /\ "a" \in DOMAIN _deprecatedHooks
  /\ Get(_hooks, "b") # <<>>
  /\ console = EmptyBag
  /\ \E i \in 1..Len(handles) :
       /\ handles[i].originalName = "a"
       /\ handles[i].callback = Undefined
       /\ handles[i].calls > 0

\* how often cb is stored in h, over all names
Stored(h, cb) ==
  Cardinality(UNION {{<<n, k>> : k \in {j \in 1..Len(h[n]) : h[n][j] = cb}} : n \in DOMAIN h})

\* C16: the first invocation of the closure returned by addHooks removes the
\* registrations that addHooks made, one per entry of the flattened configuration:
\* each callback is stored as many times fewer as addHooks registered it; a later
\* invocation changes nothing.
C16_CompositeRemovesOnce ==
  [][\A k \in 1..MaxHandles :
       RemoveAll(k) =>
         IF removeFns[k].calls = 0
         THEN \A f \in Functions :
                Stored(_hooks', Plain(f)) =
                  Stored(_hooks, Plain(f)) -
                    Occurrences([i \in 1..Len(removeFns[k].created) |->
                                   removeFns[k].created[i].callback], Plain(f))
         ELSE _hooks' = _hooks]_vars

\* C17: once the closure returned by hook(name, function_) has been invoked, the
\* registration it made is gone, whatever happened in between: a callback is
\* stored at most as many times as closures that registered it are not yet invoked.
C17_InvokedHandleGone ==
  \A f \in Functions :
    Stored(_hooks, Plain(f)) <=
      Cardinality({i \in 1..Len(handles) :
                     handles[i].callback = Plain(f) /\ handles[i].calls = 0})

\* C18: in every state no callback is stored under a name that has an entry in the
\* alias table; a dispatch looks the literal name up, so callHook and
\* callHookParallel of a deprecated name work on no callback and invoke none, the
\* callbacks registered through that name included.
\* (The alias table is empty at first; the formula speaks of every state a step
\* leads to.)
C18_DeprecatedNameHoldsNothing ==
  [][/\ \A name \in DOMAIN _deprecatedHooks' : Get(_hooks', name) = <<>>
     /\ \A name \in Names, arguments_ \in Arguments :
          (/\ CallHook(name, arguments_) \/ CallHookParallel(name, arguments_)
           /\ name \in DOMAIN _deprecatedHooks) =>
            /\ calls'[Len(calls')].hooks = <<>>
            /\ calls'[Len(calls')].started = <<>>
            /\ onceFired' = onceFired
     /\ \A d \in 1..Len(calls') : calls'[d].hooks = <<>> => calls'[d].started = <<>>
    ]_vars

\* a wrapper of hookOnce was registered through the deprecated name a, is stored
\* under b and has been invoked by a dispatch of b; the dispatch of a that was
\* made after it found no callback and has resolved
C18_Witness ==
  /\ "a" \in DOMAIN _deprecatedHooks
  /\ \E i \in 1..Len(handles) :
       /\ handles[i].originalName = "a" /\ handles[i].name = "b"
       /\ handles[i].callback.once > 0
       /\ onceFired[handles[i].callback.once] > 0
  /\ Get(_hooks, "b") # <<>>
  /\ Len(calls) = 1
  /\ calls[1].name = "a" /\ calls[1].hooks = <<>> /\ calls[1].state = "resolved"

\* C19: the loop of hook() over the alias table ends, at a name without entry,
\* exactly when the chain from the name has no cycle; deprecateHook stores any
\* alias, one that closes a cycle included, and a hook() on a name of a cycle, or
\* a deprecateHook of such a name that holds callbacks, never returns.
C19_ResolutionEndsIffAcyclic ==
  [][/\ \A name \in Names, f \in Functions, allow \in BOOLEAN :
          Register(name, f, allow) =>
            /\ hung' <=> ~Acyclic(name)
            /\ ~hung' =>
                 /\ FinalName(name) \notin DOMAIN _deprecatedHooks
                 /\ Get(_hooks', FinalName(name)) =
                      Append(Get(_hooks, FinalName(name)), Plain(f))
     /\ \A name \in Names, to \in Names, message \in Messages :
          Deprecate(name, to, message) =>
            /\ _deprecatedHooks' =
                 Put(_deprecatedHooks, name, [to |-> to, message |-> message])
            /\ hung' <=>
                 /\ Get(_hooks, name) # <<>>
                 /\ \A c \in Closure(_deprecatedHooks', {name}) : c \in DOMAIN _deprecatedHooks'
    ]_vars

\* a and b are aliases of each other, no closure of hook() exists: a hook() on one
\* of them is in its loop
C19_Witness ==
  /\ hung
  /\ handles = <<>>
  /\ "a" \in DOMAIN _deprecatedHooks /\ _deprecatedHooks["a"].to = "b"
  /\ "b" \in DOMAIN _deprecatedHooks /\ _deprecatedHooks["b"].to = "a"

\* C20: a closure returned by beforeEach or afterEach that has been invoked before
\* changes neither list of interceptors when it is invoked again, also when its
\* function is on the list more than once; no closure removes more than one entry.
C20_InterceptorHandleOnce ==
  [][\A i \in 1..MaxHandles :
       Unintercept(i) =>
         /\ spyHandles[i].calls >= 1 => (_before' = _before /\ _after' = _after)
         /\ spyHandles'[i].removed <= 1]_vars

====
